---- MODULE Spec2Model ----
\* Model of src/app.py: extract_and_fill_tiktok_ids (lines 24-141) and the
\* button handler that calls it (lines 144-145).
\*
\* A Python str is modelled as a sequence of tokens (a key such as "sku_id=",
\* a single digit, a separator, or a piece of other text), so that re.search,
\* re.findall and str.replace are computed by scanning, as the code does.
EXTENDS Integers, Sequences, FiniteSets, TLC

VARIABLES pc, outcome, short_url, final_url, product_id, sku_id_url, text,
          sku_ids, default_sku_id, filled_urls, partial_url, shown, branch,
          result

vars == <<pc, outcome, short_url, final_url, product_id, sku_id_url, text,
          sku_ids, default_sku_id, filled_urls, partial_url, shown, branch,
          result>>

-----------------------------------------------------------------------------
\* Bounds of the exploration

MaxUrlItems == 3
MaxHtmlItems == 3

-----------------------------------------------------------------------------
\* Python values

\* None, and a local name that has not been assigned yet. Both are one-token
\* sequences that no \d+ group can produce.
None == <<"None">>
Unbound == <<"Unbound">>

\* bool(v) for a str-or-None value
Truthy(v) == v # None /\ v # <<>>

IsDigit(c) == c \in {"0", "1", "2", "3", "4", "5", "6", "7", "8", "9"}

\* the maximal run of digits of s that starts at position i (the group \d+)
RECURSIVE DigitRun(_, _)
DigitRun(s, i) ==
    IF i <= Len(s) /\ IsDigit(s[i]) THEN <<s[i]>> \o DigitRun(s, i + 1) ELSE <<>>

\* re.search(key + r'(\d+)', s): group(1) of the leftmost match, else None
RECURSIVE SearchFrom(_, _, _)
SearchFrom(key, s, i) ==
    IF i > Len(s) THEN None
    ELSE IF s[i] = key /\ DigitRun(s, i + 1) # <<>> THEN DigitRun(s, i + 1)
    ELSE SearchFrom(key, s, i + 1)

Search(key, s) == SearchFrom(key, s, 1)

\* position after the run of whitespace starting at i (the \s*)
RECURSIVE SkipSpace(_, _)
SkipSpace(s, i) ==
    IF i <= Len(s) /\ s[i] = " " THEN SkipSpace(s, i + 1) ELSE i

\* sku_id_pattern = r'sku_id"\s*:\s*"(\d+)"' tried at position i:
\* <<group(1), position after the match>>, or <<None, 0>> when it fails there
MatchSkuAt(s, i) ==
    IF i > Len(s) \/ s[i] # "sku_id\"" THEN <<None, 0>>
    ELSE LET c == SkipSpace(s, i + 1) IN
         IF c > Len(s) \/ s[c] # ":" THEN <<None, 0>>
         ELSE LET q == SkipSpace(s, c + 1) IN
              IF q > Len(s) \/ s[q] # "\"" THEN <<None, 0>>
              ELSE LET d == DigitRun(s, q + 1)
                       e == q + 1 + Len(d) IN
                   IF d = <<>> \/ e > Len(s) \/ s[e] # "\"" THEN <<None, 0>>
                   ELSE <<d, e + 1>>

\* re.findall(sku_id_pattern, text): the groups of the non-overlapping
\* matches, left to right
RECURSIVE FindAllFrom(_, _)
FindAllFrom(s, i) ==
    IF i > Len(s) THEN <<>>
    ELSE LET m == MatchSkuAt(s, i) IN
         IF m[1] = None THEN FindAllFrom(s, i + 1)
         ELSE <<m[1]>> \o FindAllFrom(s, m[2])

FindAllSku(s) == FindAllFrom(s, 1)

\* does old occur in s at position i
OccursAt(s, old, i) ==
    /\ i + Len(old) - 1 <= Len(s)
    /\ \A k \in 1..Len(old) : s[i + k - 1] = old[k]

\* s.replace(old, new): every non-overlapping occurrence, left to right
RECURSIVE ReplaceFrom(_, _, _, _)
ReplaceFrom(s, old, new, i) ==
    IF i > Len(s) THEN <<>>
    ELSE IF OccursAt(s, old, i) THEN new \o ReplaceFrom(s, old, new, i + Len(old))
    ELSE <<s[i]>> \o ReplaceFrom(s, old, new, i + 1)

Replace(s, old, new) == ReplaceFrom(s, old, new, 1)

\* x in xs, for a list
InList(x, xs) == \E i \in 1..Len(xs) : xs[i] = x

-----------------------------------------------------------------------------
\* Module-level values

TemplateSellerId == "7495316114727995400"

checkout_url_template ==
    << "https://www.tiktok.com/view/fe_tiktok_ecommerce_in_web/order_submit/index.html?enter_from=product_card&enter_method=product_card",
       "&", "sku_id=", "[]", "&", "product_id=", "[]", "&", "quantity=", "1",
       "&", "seller_id=", TemplateSellerId >>

-----------------------------------------------------------------------------
\* The inputs the environment can supply

\* The URL typed into the text input, when it is not left empty
ShortUrl == <<"https://www.tiktok.com/t/ZP8kbRubf/">>

\* Pieces a resolved URL is made of: a product path segment, a path segment
\* without digits, a product_id parameter, and two sku_id parameters (one of
\* them equal to the product id of the path segment)
UrlItems ==
    { <<"/product/", "1", "7">>,
      <<"/product/", "x">>,
      <<"&", "product_id=", "2">>,
      <<"&", "sku_id=", "1", "7">>,
      <<"&", "sku_id=", "3">> }

\* Pieces a page body is made of: two embedded sku_id keys (one written with
\* whitespace around the colon) and an unquoted one the pattern does not
\* match
HtmlItems ==
    { <<"\"", "sku_id\"", ":", "\"", "3", "\"">>,
      <<"\"", "sku_id\"", " ", ":", " ", "\"", "5", "\"">>,
      <<"\"", "sku_id\"", ":", "5", ",">> }

\* all sequences over S of length at most n
RECURSIVE SeqsUpTo(_, _)
SeqsUpTo(S, n) ==
    IF n = 0 THEN {<<>>}
    ELSE LET R == SeqsUpTo(S, n - 1) IN
         R \cup {Append(r, x) : r \in {q \in R : Len(q) = n - 1}, x \in S}

RECURSIVE Concat(_)
Concat(ss) == IF ss = <<>> THEN <<>> ELSE Head(ss) \o Concat(Tail(ss))

UrlInputs ==
    {<<"https://www.tiktok.com/view">> \o Concat(items) :
        items \in SeqsUpTo(UrlItems, MaxUrlItems)}

HtmlInputs == {Concat(items) : items \in SeqsUpTo(HtmlItems, MaxHtmlItems)}

-----------------------------------------------------------------------------
\* The steps of extract_and_fill_tiktok_ids as functions of the locals

\* ResolveProductId with the two patterns tried in the other order
ResolveProductId_QueryFirst(url) ==
    IF Search("product_id=", url) # None THEN Search("product_id=", url)
    ELSE IF Search("/product/", url) # None THEN Search("/product/", url)
    ELSE None

\* lines 44-51
ResolveProductId(url) ==
    IF Search("/product/", url) # None THEN Search("/product/", url)
    ELSE IF Search("product_id=", url) # None THEN Search("product_id=", url)
    ELSE None

\* lines 54-57
ResolveSkuIdUrl(url) == Search("sku_id=", url)

\* CollectSkuIds with sku_ids.insert(0, sku_id_url) in place of append
CollectSkuIds_Prepend(url_sku, page) ==
    LET found == FindAllSku(page) IN
    IF Truthy(url_sku) /\ ~InList(url_sku, found) THEN <<url_sku>> \o found
    ELSE found

\* lines 66-69
CollectSkuIds(url_sku, page) ==
    LET found == FindAllSku(page) IN
    IF Truthy(url_sku) /\ ~InList(url_sku, found) THEN Append(found, url_sku)
    ELSE found

\* DefaultSku preferring the first list element to the URL parameter
DefaultSku_ListFirst(url_sku, skus, pid) ==
    IF skus # <<>> THEN skus[1]
    ELSE IF Truthy(url_sku) THEN url_sku ELSE pid

\* DefaultSku without the product_id fallback
DefaultSku_NoProductFallback(url_sku, skus, pid) ==
    IF Truthy(url_sku) THEN url_sku
    ELSE IF skus # <<>> THEN skus[1] ELSE None

\* line 72
DefaultSku(url_sku, skus, pid) ==
    IF Truthy(url_sku) THEN url_sku
    ELSE IF skus # <<>> THEN skus[1] ELSE pid

\* lines 96 and 103
FillUrl(template, sku, pid) ==
    Replace(Replace(template, <<"sku_id=", "[]">>, <<"sku_id=">> \o sku),
            <<"product_id=", "[]">>, <<"product_id=">> \o pid)

\* lines 115 and 135
PartialUrl(template, pid) ==
    Replace(Replace(template, <<"product_id=", "[]">>, <<"product_id=">> \o pid),
            <<"sku_id=", "[]">>, <<"sku_id=">> \o pid)

\* lines 92-119: the branch taken, the URLs appended to filled_urls, and the
\* heading each URL is displayed under
GenerateUrls(template, pid, skus, dflt) ==
    IF Truthy(pid) /\ skus # <<>> THEN
        [branch |-> "each_sku",
         filled_urls |-> [i \in 1..Len(skus) |-> FillUrl(template, skus[i], pid)],
         shown |-> [i \in 1..Len(skus) |->
                      [label |-> "filled", url |-> FillUrl(template, skus[i], pid)]],
         partial_url |-> Unbound]
    ELSE IF Truthy(pid) /\ Truthy(dflt) THEN
        [branch |-> "default_sku",
         filled_urls |-> <<FillUrl(template, dflt, pid)>>,
         shown |-> <<[label |-> "filled", url |-> FillUrl(template, dflt, pid)]>>,
         partial_url |-> Unbound]
    ELSE IF Truthy(pid) THEN
        [branch |-> "cannot_fill",
         filled_urls |-> <<PartialUrl(template, pid)>>,
         shown |-> <<[label |-> "partial", url |-> PartialUrl(template, pid)]>>,
         partial_url |-> PartialUrl(template, pid)]
    ELSE
        [branch |-> "cannot_fill", filled_urls |-> <<>>, shown |-> <<>>,
         partial_url |-> Unbound]

\* ExceptHandler displaying its URL under the heading of a filled URL
ExceptHandler_ShownFilled(template, pid, url_sku) ==
    IF pid = Unbound THEN
        [raised |-> TRUE, shown |-> <<>>, partial_url |-> Unbound,
         result |-> [product_id |-> Unbound, sku_ids |-> <<>>,
                     filled_urls |-> <<>>, all_sku_ids |-> <<>>]]
    ELSE
        [raised |-> FALSE,
         shown |-> IF Truthy(pid)
                   THEN <<[label |-> "filled", url |-> PartialUrl(template, pid)]>>
                   ELSE <<>>,
         partial_url |-> IF Truthy(pid) THEN PartialUrl(template, pid) ELSE Unbound,
         result |-> [product_id |-> pid,
                     sku_ids |-> IF Truthy(url_sku) THEN <<url_sku>> ELSE <<>>,
                     filled_urls |-> IF Truthy(pid)
                                     THEN <<PartialUrl(template, pid)>> ELSE <<>>,
                     all_sku_ids |-> <<>>]]

\* ExceptHandler filling the URL's sku_id from the URL parameter when there
\* is one
ExceptHandler_UsesUrlSku(template, pid, url_sku) ==
    LET u == IF Truthy(url_sku) THEN FillUrl(template, url_sku, pid)
             ELSE PartialUrl(template, pid) IN
    IF pid = Unbound THEN
        [raised |-> TRUE, shown |-> <<>>, partial_url |-> Unbound,
         result |-> [product_id |-> Unbound, sku_ids |-> <<>>,
                     filled_urls |-> <<>>, all_sku_ids |-> <<>>]]
    ELSE
        [raised |-> FALSE,
         shown |-> IF Truthy(pid) THEN <<[label |-> "partial", url |-> u]>>
                   ELSE <<>>,
         partial_url |-> IF Truthy(pid) THEN u ELSE Unbound,
         result |-> [product_id |-> pid,
                     sku_ids |-> IF Truthy(url_sku) THEN <<url_sku>> ELSE <<>>,
                     filled_urls |-> IF Truthy(pid) THEN <<u>> ELSE <<>>,
                     all_sku_ids |-> <<>>]]

\* lines 123-141, the handler of requests.RequestException. It reads the
\* locals product_id and sku_id_url; reading a local that was never assigned
\* raises UnboundLocalError out of the function.
ExceptHandler(template, pid, url_sku) ==
    IF pid = Unbound THEN
        [raised |-> TRUE, shown |-> <<>>, partial_url |-> Unbound,
         result |-> [product_id |-> Unbound, sku_ids |-> <<>>,
                     filled_urls |-> <<>>, all_sku_ids |-> <<>>]]
    ELSE
        [raised |-> FALSE,
         shown |-> IF Truthy(pid)
                   THEN <<[label |-> "partial", url |-> PartialUrl(template, pid)]>>
                   ELSE <<>>,
         partial_url |-> IF Truthy(pid) THEN PartialUrl(template, pid) ELSE Unbound,
         result |-> [product_id |-> pid,
                     sku_ids |-> IF Truthy(url_sku) THEN <<url_sku>> ELSE <<>>,
                     filled_urls |-> IF Truthy(pid)
                                     THEN <<PartialUrl(template, pid)>> ELSE <<>>,
                     all_sku_ids |-> <<>>]]

\* the value of `result` while no call has returned
NoResult ==
    [product_id |-> Unbound, sku_ids |-> <<>>, filled_urls |-> <<>>,
     all_sku_ids |-> <<>>]

-----------------------------------------------------------------------------
\* State machine
\*
\* pc is the position in the call: "idle" before the button is pressed,
\* "resolve" while the first request is in flight, "fetch" while the second
\* is, "returned" after a return statement, "raised" after an exception left
\* the function. outcome records which return was taken.

Init ==
    /\ pc = "idle"
    /\ outcome = "none"
    /\ short_url \in {<<>>, ShortUrl}
    /\ final_url = Unbound
    /\ product_id = Unbound
    /\ sku_id_url = Unbound
    /\ text = Unbound
    /\ sku_ids = Unbound
    /\ default_sku_id = Unbound
    /\ filled_urls = Unbound
    /\ partial_url = Unbound
    /\ shown = <<>>
    /\ branch = "none"
    /\ result = NoResult

\* lines 144-145 and 24-34: the button calls the function; an empty URL
\* returns at once, otherwise the first request is sent
Call ==
    /\ pc = "idle"
    /\ IF short_url = <<>>
       THEN /\ pc' = "returned"
            /\ outcome' = "empty_url"
            /\ result' = [product_id |-> None, sku_ids |-> <<>>,
                          filled_urls |-> None, all_sku_ids |-> <<>>]
       ELSE /\ pc' = "resolve"
            /\ UNCHANGED <<outcome, result>>
    /\ UNCHANGED <<short_url, final_url, product_id, sku_id_url, text, sku_ids,
                   default_sku_id, filled_urls, partial_url, shown, branch>>

\* lines 36-57: the first request succeeds and redirects to u
ResolveOk(u) ==
    /\ pc = "resolve"
    /\ final_url' = u
    /\ product_id' = ResolveProductId(u)
    /\ sku_id_url' = ResolveSkuIdUrl(u)
    /\ pc' = "fetch"
    /\ UNCHANGED <<outcome, short_url, text, sku_ids, default_sku_id,
                   filled_urls, partial_url, shown, branch, result>>

\* line 39 raises requests.RequestException; lines 123-141 handle it
ResolveFail ==
    /\ pc = "resolve"
    /\ LET h == ExceptHandler(checkout_url_template, product_id, sku_id_url) IN
        /\ pc' = IF h.raised THEN "raised" ELSE "returned"
        /\ shown' = h.shown
        /\ partial_url' = h.partial_url
        /\ result' = h.result
    /\ outcome' = "resolve_failed"
    /\ UNCHANGED <<short_url, final_url, product_id, sku_id_url, text, sku_ids,
                   default_sku_id, filled_urls, branch>>

\* lines 59-121: the second request succeeds with body t
FetchOk(t) ==
    /\ pc = "fetch"
    /\ text' = t
    /\ \E skus \in {CollectSkuIds(sku_id_url, t)} :
       \E dflt \in {DefaultSku(sku_id_url, skus, product_id)} :
       \E g \in {GenerateUrls(checkout_url_template, product_id, skus, dflt)} :
        /\ sku_ids' = skus
        /\ default_sku_id' = dflt
        /\ filled_urls' = g.filled_urls
        /\ partial_url' = g.partial_url
        /\ shown' = g.shown
        /\ branch' = g.branch
        /\ result' = [product_id |-> product_id, sku_ids |-> skus,
                      filled_urls |-> g.filled_urls, all_sku_ids |-> skus]
    /\ pc' = "returned"
    /\ outcome' = "ok"
    /\ UNCHANGED <<short_url, final_url, product_id, sku_id_url>>

\* line 61 or 62 raises requests.RequestException; lines 123-141 handle it
FetchFail ==
    /\ pc = "fetch"
    /\ LET h == ExceptHandler(checkout_url_template, product_id, sku_id_url) IN
        /\ pc' = IF h.raised THEN "raised" ELSE "returned"
        /\ shown' = h.shown
        /\ partial_url' = h.partial_url
        /\ result' = h.result
    /\ outcome' = "fetch_failed"
    /\ UNCHANGED <<short_url, final_url, product_id, sku_id_url, text, sku_ids,
                   default_sku_id, filled_urls, branch>>

Next ==
    \/ Call
    \/ \E u \in UrlInputs : ResolveOk(u)
    \/ ResolveFail
    \/ \E t \in HtmlInputs : FetchOk(t)
    \/ FetchFail

Spec == Init /\ [][Next]_vars

-----------------------------------------------------------------------------
\* Properties

Range(xs) == {xs[i] : i \in 1..Len(xs)}

NoDuplicates(xs) == \A i, j \in 1..Len(xs) : i # j => xs[i] # xs[j]

Contains(s, sub) == \E i \in 1..Len(s) : OccursAt(s, sub, i)

\* the URL u carries the query parameter key with exactly the value val
HasParam(u, key, val) == Contains(u, <<key>> \o val \o <<"&">>)

\* the URL u carries a seller id
HasSellerId(u) == Contains(u, <<"seller_id=", TemplateSellerId>>)

\* the digits after the leftmost occurrence of key in s that digits follow
FirstId(key, s) ==
    LET at == {i \in 1..Len(s) - 1 : s[i] = key /\ IsDigit(s[i + 1])} IN
    IF at = {} THEN None
    ELSE DigitRun(s, (CHOOSE i \in at : \A j \in at : i <= j) + 1)

\* C1: after a successful run the SKU id list holds no value twice.
C1_NoDuplicateSkuIds ==
    outcome = "ok" => NoDuplicates(result.sku_ids)

\* C2: after a successful run with a product id, there is one checkout URL
\* per distinct SKU id, and every URL carries its SKU id, the product id and
\* the seller id.
C2_OneUrlPerDistinctSku ==
    (outcome = "ok" /\ Truthy(result.product_id) /\ result.sku_ids # <<>>) =>
        /\ Len(result.filled_urls) = Cardinality(Range(result.sku_ids))
        /\ \A s \in Range(result.sku_ids) :
              \E i \in 1..Len(result.filled_urls) :
                  /\ HasParam(result.filled_urls[i], "sku_id=", s)
                  /\ HasParam(result.filled_urls[i], "product_id=", result.product_id)
                  /\ HasSellerId(result.filled_urls[i])

\* C3: when a request fails, the function does not raise: it returns, with
\* the product id and the URL's SKU id that the resolved URL yields.
C3_RequestFailureNeverRaises ==
    outcome \in {"resolve_failed", "fetch_failed"} =>
        /\ pc = "returned"
        /\ final_url # Unbound =>
              /\ result.product_id = ResolveProductId(final_url)
              /\ Truthy(FirstId("sku_id=", final_url)) =>
                    result.sku_ids = <<FirstId("sku_id=", final_url)>>

C5_DefaultSkuPrecedence ==
    outcome = "ok" =>
        default_sku_id =
            IF FirstId("sku_id=", final_url) # None
            THEN FirstId("sku_id=", final_url)
            ELSE IF FindAllSku(text) # <<>> THEN FindAllSku(text)[1]
            ELSE product_id

\* the URL has a sku_id, the page lists another SKU id first, and the URL's
\* value is the default
C5_Witness ==
    /\ outcome = "ok"
    /\ Truthy(sku_id_url)
    /\ FindAllSku(text) # <<>>
    /\ FindAllSku(text)[1] # sku_id_url
    /\ default_sku_id = sku_id_url

\* C6: product_id is the digits of the leftmost /product/<digits> of the
\* resolved URL, else those of its leftmost product_id=<digits>, else None,
\* and is returned unchanged whatever the page holds.
C6_ProductIdFromUrl ==
    LET expected ==
            IF FirstId("/product/", final_url) # None
            THEN FirstId("/product/", final_url)
            ELSE FirstId("product_id=", final_url) IN
    /\ pc = "fetch" => product_id = expected
    /\ outcome \in {"ok", "fetch_failed"} =>
          /\ product_id = expected
          /\ result.product_id = expected

\* the URL has both a path segment and a product_id parameter with another
\* value, and the page was fetched
C6_Witness ==
    /\ outcome = "ok"
    /\ FirstId("/product/", final_url) # None
    /\ FirstId("product_id=", final_url) # None
    /\ FirstId("product_id=", final_url) # FirstId("/product/", final_url)
    /\ FindAllSku(text) # <<>>
    /\ result.product_id = FirstId("/product/", final_url)

\* C7: after a successful run the SKU list starts with the ids found in the
\* page, in page order; the URL's sku_id is a member, and is the one extra,
\* last element exactly when the page did not hold it; with no SKU in URL or
\* page the list is empty.
C7_UrlSkuAppendedLast ==
    outcome = "ok" =>
        LET found == FindAllSku(text)
            n == Len(found) IN
        /\ Len(sku_ids) \in {n, n + 1}
        /\ SubSeq(sku_ids, 1, n) = found
        /\ Truthy(sku_id_url) => InList(sku_id_url, sku_ids)
        /\ Len(sku_ids) = n + 1 <=>
              (Truthy(sku_id_url) /\ ~InList(sku_id_url, found))
        /\ Len(sku_ids) = n + 1 => sku_ids[n + 1] = sku_id_url
        /\ (~Truthy(sku_id_url) /\ found = <<>>) => sku_ids = <<>>
        /\ result.sku_ids = sku_ids

\* the page holds SKU ids, the URL another one, and it was appended
C7_Witness ==
    /\ outcome = "ok"
    /\ FindAllSku(text) # <<>>
    /\ Truthy(sku_id_url)
    /\ Len(sku_ids) = Len(FindAllSku(text)) + 1
    /\ sku_ids[Len(sku_ids)] = sku_id_url

\* C9: after a successful run the URL list is non-empty exactly when a
\* product id was found; with a product id the cannot-fill branch is not
\* taken; the single-URL branch is taken only with an empty SKU list and no
\* sku_id in the URL, and its URL's sku_id is the product id.
C9_UrlsIffProductId ==
    outcome = "ok" =>
        /\ result.filled_urls # <<>> <=> Truthy(product_id)
        /\ Truthy(product_id) => branch \in {"each_sku", "default_sku"}
        /\ ~Truthy(product_id) => branch = "cannot_fill"
        /\ branch = "default_sku" =>
              /\ sku_ids = <<>>
              /\ ~Truthy(sku_id_url)
              /\ Len(result.filled_urls) = 1
              /\ HasParam(result.filled_urls[1], "sku_id=", product_id)
              /\ HasParam(result.filled_urls[1], "product_id=", product_id)

\* the single-URL branch was taken
C9_Witness ==
    /\ outcome = "ok"
    /\ branch = "default_sku"
    /\ Len(result.filled_urls) = 1

\* a run that found SKU ids but no product id produced no URL
C9_WitnessNoProduct ==
    /\ outcome = "ok"
    /\ ~Truthy(product_id)
    /\ sku_ids # <<>>
    /\ result.filled_urls = <<>>

\* C10: when the page request fails after the URL was resolved, the function
\* returns the product id, the URL's sku_id as a list of at most one, one
\* partial URL if there is a product id and none otherwise, and an empty
\* fourth component; the partial URL's sku_id is the product id.
C10_FetchFailureResult ==
    outcome = "fetch_failed" =>
        /\ pc = "returned"
        /\ result.product_id = product_id
        /\ result.sku_ids = IF Truthy(sku_id_url) THEN <<sku_id_url>> ELSE <<>>
        /\ result.all_sku_ids = <<>>
        /\ Len(result.filled_urls) = IF Truthy(product_id) THEN 1 ELSE 0
        /\ Truthy(product_id) =>
              /\ HasParam(result.filled_urls[1], "sku_id=", product_id)
              /\ HasParam(result.filled_urls[1], "product_id=", product_id)
              /\ shown = <<[label |-> "partial", url |-> result.filled_urls[1]]>>

\* the URL supplied a sku_id other than the product id, and the page request
\* failed
C10_Witness ==
    /\ outcome = "fetch_failed"
    /\ Truthy(product_id)
    /\ Truthy(sku_id_url)
    /\ sku_id_url # product_id
    /\ Len(result.filled_urls) = 1

====
